---- MODULE Spec2Model ----
(***************************************************************************)
(* Model of src/server.js: the portfolio server of imvigneshksb/invest.     *)
(*                                                                         *)
(* Three state machines share the module:                                  *)
(*   SpecNum   safeNumber applied to bounded arguments;                     *)
(*   SpecCons  consolidatePortfolio applied to bounded portfolios, one      *)
(*             forEach iteration per step;                                  *)
(*   Spec      the HTTP handlers over the persisted portfolio.json, one     *)
(*             step per suspension point (await) of a handler.              *)
(*                                                                         *)
(* JavaScript numbers are modelled as exact rationals plus NaN and the two  *)
(* infinities; floating-point rounding error is not modelled.               *)
(***************************************************************************)
EXTENDS Integers, Sequences, FiniteSets, TLC

----------------------------------------------------------------------------
(* JavaScript values of the numeric fields.                                *)
(*   t = "num"    a finite number n/d (d > 0, lowest terms)                 *)
(*   t = "nan"    NaN                                                        *)
(*   t = "inf"    Infinity (n = 1) or -Infinity (n = -1)                     *)
(*   t = "undef"  undefined, i.e. a field missing from the JSON document    *)
(*   t = "null"   JSON null                                                  *)
(*   t = "strnum" a string whose numeric prefix parses to n/d ("33.33")     *)
(*   t = "strnan" a string with no numeric prefix ("abc", "NaN", "")        *)
(*   t = "strinf" the string "Infinity" (n = 1) or "-Infinity" (n = -1)     *)

Abs(x) == IF x < 0 THEN -x ELSE x

Sign(x) == IF x < 0 THEN -1 ELSE IF x > 0 THEN 1 ELSE 0

RECURSIVE GCD(_, _)
GCD(a, b) == IF b = 0 THEN a ELSE GCD(b, a % b)

Num(n, d) ==
  LET g == GCD(Abs(n), Abs(d))
      s == IF d < 0 THEN -1 ELSE 1
  IN  [t |-> "num", n |-> (s * n) \div g, d |-> Abs(d) \div g]

Whole(n) == [t |-> "num", n |-> n, d |-> 1]

NaN == [t |-> "nan", n |-> 0, d |-> 1]

Infinity(s) == [t |-> "inf", n |-> s, d |-> 1]

Undefined == [t |-> "undef", n |-> 0, d |-> 1]

Null == [t |-> "null", n |-> 0, d |-> 1]

StrNum(n, d) == [t |-> "strnum", n |-> Num(n, d).n, d |-> Num(n, d).d]

StrNaN == [t |-> "strnan", n |-> 0, d |-> 1]

StrInf(s) == [t |-> "strinf", n |-> s, d |-> 1]

IsNumber(v) == v.t \in {"num", "nan", "inf"}

IsFinite(v) == v.t = "num"

\* parseFloat(value): ToString then the longest numeric prefix
parseFloat(v) ==
  CASE v.t = "num" -> v
    [] v.t = "inf" -> v
    [] v.t = "strnum" -> [t |-> "num", n |-> v.n, d |-> v.d]
    [] v.t = "strinf" -> Infinity(v.n)
    [] OTHER -> NaN

isNaN(v) == v.t = "nan"

\* ToNumber, as applied by the operators - * / to their operands
ToNumber(v) ==
  CASE v.t \in {"num", "inf", "nan"} -> v
    [] v.t = "strnum" -> [t |-> "num", n |-> v.n, d |-> v.d]
    [] v.t = "strinf" -> Infinity(v.n)
    [] v.t = "null" -> Whole(0)
    [] OTHER -> NaN

NumAdd(a, b) ==
  CASE a.t = "nan" \/ b.t = "nan" -> NaN
    [] a.t = "inf" /\ b.t = "inf" -> IF a.n = b.n THEN a ELSE NaN
    [] a.t = "inf" -> a
    [] b.t = "inf" -> b
    [] OTHER -> Num(a.n * b.d + b.n * a.d, a.d * b.d)

NumNeg(a) ==
  CASE a.t = "nan" -> NaN
    [] a.t = "inf" -> Infinity(-a.n)
    [] OTHER -> Num(-a.n, a.d)

NumMul(a, b) ==
  CASE a.t = "nan" \/ b.t = "nan" -> NaN
    [] a.t = "inf" \/ b.t = "inf" ->
         IF Sign(a.n) * Sign(b.n) = 0 THEN NaN ELSE Infinity(Sign(a.n) * Sign(b.n))
    [] OTHER -> Num(a.n * b.n, a.d * b.d)

NumDiv(a, b) ==
  CASE a.t = "nan" \/ b.t = "nan" -> NaN
    [] a.t = "inf" /\ b.t = "inf" -> NaN
    [] a.t = "inf" -> Infinity(IF b.n < 0 THEN -a.n ELSE a.n)
    [] b.t = "inf" -> Whole(0)
    [] b.n = 0 -> IF a.n = 0 THEN NaN ELSE Infinity(Sign(a.n))
    [] OTHER -> Num(a.n * b.d, a.d * b.n)

\* the operators of the language on arbitrary values (no operand of the
\* modelled code is added with +, so string concatenation never arises)
Plus(a, b) == NumAdd(ToNumber(a), ToNumber(b))

Minus(a, b) == NumAdd(ToNumber(a), NumNeg(ToNumber(b)))

Times(a, b) == NumMul(ToNumber(a), ToNumber(b))

Over(a, b) == NumDiv(ToNumber(a), ToNumber(b))

\* a > 0
Gt0(a) ==
  LET x == ToNumber(a)
  IN  (x.t = "num" /\ x.n > 0) \/ (x.t = "inf" /\ x.n > 0)

\* truthiness of a value used as a condition
Truthy(v) ==
  CASE v.t = "num" -> v.n # 0
    [] v.t = "inf" -> TRUE
    [] v.t \in {"strnum", "strinf"} -> TRUE
    [] OTHER -> FALSE

\* Number.prototype.toFixed(2): a string; ties round away from zero
toFixed2(x) ==
  CASE x.t = "nan" -> StrNaN
    [] x.t = "inf" -> StrInf(x.n)
    [] OTHER ->
         LET r == (200 * Abs(x.n) + x.d) \div (2 * x.d)
         IN  StrNum(Sign(x.n) * r, 100)

\* JSON.stringify followed by JSON.parse of one field value
JsonValue(v) == IF v.t \in {"nan", "inf"} THEN Null ELSE v

\* src/server.js:15 safeNumber
safeNumber(value, defaultValue) ==
  LET num == parseFloat(value)
  IN  IF isNaN(num) THEN defaultValue ELSE num

safeNumber0(value) == safeNumber(value, Whole(0))

----------------------------------------------------------------------------
(* Holdings of portfolio.json.  A text field that is missing is "".  The   *)
(* exchange field, which no modelled code reads, is left out.             *)

\* String.prototype.toUpperCase on the symbols of the model
toUpperCase(s) ==
  CASE s = "tcs" -> "TCS"
    [] s = "infy" -> "INFY"
    [] OTHER -> s

\* a || b on text
OrElse(a, b) == IF a # "" THEN a ELSE b

\* src/server.js:472 newStock, as written by POST /api/portfolio/stock
NewStock(body, id) ==
  [ id |-> id,
    symbol |-> toUpperCase(body.symbol),
    originalSymbol |-> OrElse(body.originalSymbol, body.symbol),
    companyName |-> OrElse(body.originalSymbol, body.symbol),
    quantity |-> safeNumber0(body.quantity),
    purchasePrice |-> safeNumber0(body.purchasePrice),
    purchaseDate |-> body.purchaseDate,
    currentPrice |-> safeNumber0(body.purchasePrice),
    change |-> Whole(0),
    changePercent |-> Whole(0),
    totalValue |-> Times(safeNumber0(body.quantity), safeNumber0(body.purchasePrice)),
    totalGain |-> Whole(0),
    gainPercent |-> Whole(0),
    priceError |-> "undefined",
    lastUpdated |-> "" ]

\* src/server.js:552 newMF, as written by POST /api/portfolio/mutual-fund
\* (code is the all-digits scheme of the request, "" when it is a name)
NewMF(body, schemeName, code, id, today) ==
  [ id |-> id,
    scheme |-> schemeName,
    schemeCode |-> code,
    units |-> safeNumber0(body.units),
    purchaseNAV |-> safeNumber0(body.purchaseNAV),
    investedAmount |-> safeNumber0(body.investedAmount),
    purchaseDate |-> body.purchaseDate,
    currentNAV |-> safeNumber0(body.purchaseNAV),
    change |-> Whole(0),
    changePercent |-> Whole(0),
    totalValue |-> Times(safeNumber0(body.units), safeNumber0(body.purchaseNAV)),
    totalGain |-> Whole(0),
    gainPercent |-> Whole(0),
    navDate |-> today,
    navError |-> "undefined" ]

\* src/server.js:657-671: the assignments of a successful stock lookup;
\* price is the provider's regularMarketPrice, a number > 0
StockPriced(stock, price, today) ==
  LET currentPrice == parseFloat(toFixed2(price))
      change == Minus(currentPrice, stock.purchasePrice)
      totalValue == Times(stock.quantity, currentPrice)
      totalGain == Minus(totalValue, Times(stock.quantity, stock.purchasePrice))
  IN  [stock EXCEPT
        !.currentPrice = currentPrice,
        !.change = change,
        !.changePercent = toFixed2(Times(Over(change, stock.purchasePrice), Whole(100))),
        !.totalValue = totalValue,
        !.totalGain = totalGain,
        !.gainPercent =
          toFixed2(Times(Over(totalGain, Times(stock.quantity, stock.purchasePrice)),
                         Whole(100))),
        !.priceError = "false",
        !.lastUpdated = today]

\* src/server.js:752-764: the assignments of a successful NAV lookup;
\* nav is parseFloat(latestNav.nav), a number > 0
FundPriced(mf, nav, date) ==
  LET currentNAV == parseFloat(toFixed2(nav))
      change == Minus(currentNAV, mf.purchaseNAV)
      totalValue == Times(mf.units, currentNAV)
      totalGain == Minus(totalValue, mf.investedAmount)
  IN  [mf EXCEPT
        !.currentNAV = currentNAV,
        !.change = change,
        !.changePercent = toFixed2(Times(Over(change, mf.purchaseNAV), Whole(100))),
        !.totalValue = totalValue,
        !.totalGain = totalGain,
        !.gainPercent = toFixed2(Times(Over(totalGain, mf.investedAmount), Whole(100))),
        !.navError = "false",
        !.navDate = date]

\* JSON.stringify then JSON.parse of a holding: non-finite numbers become null
JsonStock(s) ==
  [s EXCEPT !.quantity = JsonValue(@), !.purchasePrice = JsonValue(@),
            !.currentPrice = JsonValue(@), !.change = JsonValue(@),
            !.changePercent = JsonValue(@), !.totalValue = JsonValue(@),
            !.totalGain = JsonValue(@), !.gainPercent = JsonValue(@)]

JsonMF(m) ==
  [m EXCEPT !.units = JsonValue(@), !.purchaseNAV = JsonValue(@),
            !.investedAmount = JsonValue(@), !.currentNAV = JsonValue(@),
            !.change = JsonValue(@), !.changePercent = JsonValue(@),
            !.totalValue = JsonValue(@), !.totalGain = JsonValue(@),
            !.gainPercent = JsonValue(@)]

----------------------------------------------------------------------------
(* consolidatePortfolio, src/server.js:90-264                              *)

\* a Map keeps its entries in insertion order: a sequence of [key, value]
MapHas(m, k) == \E i \in 1..Len(m) : m[i].key = k

MapIndex(m, k) == CHOOSE i \in 1..Len(m) : m[i].key = k

MapGet(m, k) == m[MapIndex(m, k)].value

\* Map.prototype.set: a new key goes last, a present key keeps its place
MapSet(m, k, v) ==
  IF MapHas(m, k)
  THEN [m EXCEPT ![MapIndex(m, k)] = [key |-> k, value |-> v]]
  ELSE Append(m, [key |-> k, value |-> v])

MapAssign_moved(m, k, v) ==
  Append(SelectSeq(m, LAMBDA e : e.key # k), [key |-> k, value |-> v])

\* the merge branch assigns to the fields of the object stockMap.get(key)
\* returned: the entry keeps its place in the Map
MapAssign(m, k, v) == [m EXCEPT ![MapIndex(m, k)] = [key |-> k, value |-> v]]

\* Array.from(map.values())
MapValues(m) == [i \in 1..Len(m) |-> m[i].value]

\* the ternary "invested > 0 ? (gain / invested) * 100 : 0"
PercentOf(gain, invested) ==
  IF Gt0(invested) THEN Times(Over(gain, invested), Whole(100)) ELSE Whole(0)

\* src/server.js:148-180: first occurrence of a symbol
StockFirst(stock) ==
  LET quantity == safeNumber0(stock.quantity)
      purchasePrice == safeNumber0(stock.purchasePrice)
      txnCurrentValue == Times(quantity, safeNumber0(stock.currentPrice))
      txnInvestedAmount == Times(quantity, purchasePrice)
      txnGain == Minus(txnCurrentValue, txnInvestedAmount)
      txnGainPercent == PercentOf(txnGain, txnInvestedAmount)
  IN  [ investedAmount |-> Times(quantity, purchasePrice),
        transactions |->
          << [ id |-> stock.id,
               quantity |-> quantity,
               purchasePrice |-> purchasePrice,
               purchaseDate |-> stock.purchaseDate,
               totalValue |-> txnCurrentValue,
               totalGain |-> txnGain,
               gainPercent |-> txnGainPercent ] >> ]
      @@
      [stock EXCEPT
        !.companyName =
          OrElse(stock.companyName, OrElse(stock.originalSymbol, stock.symbol)),
        !.quantity = quantity,
        !.purchasePrice = purchasePrice,
        !.currentPrice = safeNumber0(stock.currentPrice),
        !.totalValue = Times(quantity, safeNumber0(stock.currentPrice)),
        !.totalGain = safeNumber0(stock.totalGain),
        !.gainPercent = safeNumber0(stock.gainPercent),
        !.change = safeNumber0(stock.change),
        !.changePercent = safeNumber0(stock.changePercent)]

MergedCompanyName_latest(existing, stock) == stock.companyName

\* src/server.js:109-116: the name of the incoming holding is taken when it
\* is set and is neither the holding's symbol nor its originalSymbol
MergedCompanyName(existing, stock) ==
  IF /\ stock.companyName # ""
     /\ stock.companyName # stock.symbol
     /\ stock.companyName # stock.originalSymbol
  THEN stock.companyName
  ELSE existing.companyName

StockMerge_overwrite(existing, stock) ==
  [existing EXCEPT !.quantity = safeNumber0(stock.quantity)]

StockMerge_noTxn(existing, stock) ==
  [existing EXCEPT
     !.quantity = Plus(safeNumber0(existing.quantity), safeNumber0(stock.quantity))]

StockMerge_zeroUnset(existing, stock) ==
  [existing EXCEPT
     !.currentPrice = safeNumber0(stock.currentPrice),
     !.change = safeNumber0(stock.change),
     !.changePercent = safeNumber0(stock.changePercent),
     !.transactions = Append(@, [id |-> stock.id])]

\* src/server.js:97-146: merge of a further holding of a symbol
StockMerge(existing, stock) ==
  LET totalQuantity ==
        Plus(safeNumber0(existing.quantity), safeNumber0(stock.quantity))
      totalInvestment ==
        Plus(Times(safeNumber0(existing.quantity), safeNumber0(existing.purchasePrice)),
             Times(safeNumber0(stock.quantity), safeNumber0(stock.purchasePrice)))
      companyName == MergedCompanyName(existing, stock)
      currentPrice == safeNumber(stock.currentPrice, existing.currentPrice)
      totalValue == Times(totalQuantity, safeNumber0(currentPrice))
      totalGain == Minus(totalValue, totalInvestment)
      txnCurrentValue == Times(safeNumber0(stock.quantity), safeNumber0(currentPrice))
      txnInvestedAmount ==
        Times(safeNumber0(stock.quantity), safeNumber0(stock.purchasePrice))
      txnGain == Minus(txnCurrentValue, txnInvestedAmount)
      txnGainPercent == PercentOf(txnGain, txnInvestedAmount)
  IN  [existing EXCEPT
        !.quantity = totalQuantity,
        !.purchasePrice =
          IF Gt0(totalQuantity) THEN Over(totalInvestment, totalQuantity) ELSE Whole(0),
        !.investedAmount = totalInvestment,
        !.companyName = companyName,
        !.currentPrice = currentPrice,
        !.change = safeNumber(stock.change, existing.change),
        !.changePercent = safeNumber(stock.changePercent, existing.changePercent),
        !.totalValue = totalValue,
        !.totalGain = totalGain,
        !.gainPercent = PercentOf(totalGain, totalInvestment),
        !.transactions =
          Append(@, [ id |-> stock.id,
                      quantity |-> safeNumber0(stock.quantity),
                      purchasePrice |-> safeNumber0(stock.purchasePrice),
                      purchaseDate |-> stock.purchaseDate,
                      totalValue |-> txnCurrentValue,
                      totalGain |-> txnGain,
                      gainPercent |-> txnGainPercent ])]

\* src/server.js:227-256: first occurrence of a scheme
FundFirst(mf) ==
  LET units == safeNumber0(mf.units)
      txnCurrentValue == Times(units, safeNumber0(mf.currentNAV))
      txnInvestedAmount == safeNumber0(mf.investedAmount)
      txnGain == Minus(txnCurrentValue, txnInvestedAmount)
      txnGainPercent == PercentOf(txnGain, txnInvestedAmount)
  IN  [ transactions |->
          << [ id |-> mf.id,
               units |-> units,
               purchaseNAV |-> safeNumber0(mf.purchaseNAV),
               investedAmount |-> safeNumber0(mf.investedAmount),
               purchaseDate |-> mf.purchaseDate,
               totalValue |-> txnCurrentValue,
               totalGain |-> txnGain,
               gainPercent |-> txnGainPercent ] >> ]
      @@
      [mf EXCEPT
        !.units = units,
        !.purchaseNAV = safeNumber0(mf.purchaseNAV),
        !.investedAmount = safeNumber0(mf.investedAmount),
        !.currentNAV = safeNumber0(mf.currentNAV),
        !.totalValue = Times(units, safeNumber0(mf.currentNAV)),
        !.totalGain = safeNumber0(mf.totalGain),
        !.gainPercent = safeNumber0(mf.gainPercent),
        !.change = safeNumber0(mf.change),
        !.changePercent = safeNumber0(mf.changePercent)]

\* src/server.js:190-225: merge of a further holding of a scheme
FundMerge(existing, mf) ==
  LET totalInvestment ==
        Plus(safeNumber0(existing.investedAmount), safeNumber0(mf.investedAmount))
      totalUnits == Plus(safeNumber0(existing.units), safeNumber0(mf.units))
      currentNAV == safeNumber(mf.currentNAV, existing.currentNAV)
      totalValue == Times(totalUnits, safeNumber0(currentNAV))
      totalGain == Minus(totalValue, totalInvestment)
      txnCurrentValue == Times(safeNumber0(mf.units), safeNumber0(currentNAV))
      txnInvestedAmount == safeNumber0(mf.investedAmount)
      txnGain == Minus(txnCurrentValue, txnInvestedAmount)
      txnGainPercent == PercentOf(txnGain, txnInvestedAmount)
  IN  [existing EXCEPT
        !.units = totalUnits,
        !.investedAmount = totalInvestment,
        !.purchaseNAV =
          IF Gt0(totalUnits) THEN Over(totalInvestment, totalUnits) ELSE Whole(0),
        !.currentNAV = currentNAV,
        !.change = safeNumber(mf.change, existing.change),
        !.changePercent = safeNumber(mf.changePercent, existing.changePercent),
        !.totalValue = totalValue,
        !.totalGain = totalGain,
        !.gainPercent = PercentOf(totalGain, totalInvestment),
        !.navDate = OrElse(mf.navDate, existing.navDate),
        !.transactions =
          Append(@, [ id |-> mf.id,
                      units |-> safeNumber0(mf.units),
                      purchaseNAV |-> safeNumber0(mf.purchaseNAV),
                      investedAmount |-> safeNumber0(mf.investedAmount),
                      purchaseDate |-> mf.purchaseDate,
                      totalValue |-> txnCurrentValue,
                      totalGain |-> txnGain,
                      gainPercent |-> txnGainPercent ])]

----------------------------------------------------------------------------
(* State.                                                                  *)

VARIABLES
  cIn,       \* SpecCons: the portfolio passed to consolidatePortfolio
  cI,        \* SpecCons: index of the next element of portfolio.stocks
  cJ,        \* SpecCons: index of the next element of portfolio.mutualFunds
  stockMap,  \* SpecCons: the Map symbol -> position
  mfMap,     \* SpecCons: the Map scheme -> position
  cPc,       \* SpecCons: "run" inside the function, "done" once returned
  cOut,      \* SpecCons: the returned {stocks, mutualFunds}
  file,      \* Spec: data/portfolio.json, parsed
  now,       \* Spec: the clock read by Date.now() and new Date()
  req,       \* Spec: the request being handled (op = "idle": none)
  res,       \* Spec: the response to the last request answered
  bg,        \* Spec: the company-name updates started by add-stock
  nreq,      \* Spec: requests received so far
  call       \* SpecNum: one call of safeNumber: arguments, position, result

consVars == <<cIn, cI, cJ, stockMap, mfMap, cPc, cOut>>

srvVars == <<file, now, req, res, bg, nreq>>

vars == <<consVars, srvVars, call>>

\* no call of safeNumber under way
NoCall == [pc |-> "off", value |-> Undefined, defaultValue |-> Undefined,
           num |-> Undefined, out |-> Undefined]

----------------------------------------------------------------------------
(* SpecCons: consolidatePortfolio on bounded portfolios.                   *)

\* most holdings (stocks and funds together) of a consolidated portfolio
MaxHoldings == 3

StockBody(sym, q, p) ==
  [symbol |-> sym, originalSymbol |-> "", quantity |-> q, purchasePrice |-> p,
   purchaseDate |-> "d0"]

FundBody(u, nav, inv) ==
  [units |-> u, purchaseNAV |-> nav, investedAmount |-> inv, purchaseDate |-> "d0"]

\* a holding written by an older version or by hand: valuation fields missing
LegacyStock(stock, quantity) ==
  [stock EXCEPT !.quantity = quantity, !.currentPrice = Undefined,
                !.change = Undefined, !.changePercent = Undefined,
                !.totalValue = Undefined, !.totalGain = Undefined,
                !.gainPercent = Undefined]

LegacyMF(mf, units) ==
  [mf EXCEPT !.units = units, !.currentNAV = Undefined, !.change = Undefined,
             !.changePercent = Undefined, !.totalValue = Undefined,
             !.totalGain = Undefined, !.gainPercent = Undefined, !.navDate = ""]

\* stock holdings as the handlers leave them in portfolio.json: just added
\* (a negative quantity is accepted and records a sale), repriced by a
\* refresh, with fields missing, named by the company-name update, without
\* a name, or named by the symbol as the client typed it
ConsStockSamples ==
  {NewStock(StockBody("A", Whole(q), Whole(p)), "") : q \in {-1, 0, 1}, p \in {0, 3}}
  \cup {StockPriced(NewStock(StockBody("A", Whole(b[1]), Whole(b[2])), ""),
                    Whole(4), "d1") : b \in {<<1, 3>>, <<1, 0>>, <<0, 3>>}}
  \cup {LegacyStock(NewStock(StockBody("A", Whole(1), Whole(3)), ""), q) :
          q \in {StrNum(2, 1), Undefined}}
  \cup {NewStock(StockBody("B", Whole(1), Whole(p)), "") : p \in {0, 3}}
  \cup {[NewStock(StockBody("A", Whole(1), Whole(3)), "") EXCEPT !.companyName = name] :
          name \in {"Acme Ltd", "Apex Ltd", ""}}
  \cup {[NewStock(StockBody("A", Whole(1), Whole(3)), "") EXCEPT
           !.originalSymbol = "a", !.companyName = "a"]}

ConsFundSamples ==
  {NewMF(FundBody(Whole(b[1]), Whole(3), Whole(b[2])), "F", "", "", "d0") :
     b \in {<<2, 6>>, <<2, 5>>, <<0, 0>>, <<-2, -6>>}}
  \cup {FundPriced(NewMF(FundBody(Whole(2), Whole(3), Whole(6)), "F", "", "", "d0"),
                   Whole(4), "d1")}
  \cup {LegacyMF(NewMF(FundBody(Whole(2), Whole(3), Whole(6)), "F", "", "", "d0"),
                 StrNum(1, 1))}
  \cup {NewMF(FundBody(Whole(2), Whole(3), Whole(6)), "G", "", "", "d0")}

\* the ids of the holdings of a document: distinct, in creation order
WithIds(seq, base) == [i \in 1..Len(seq) |-> [seq[i] EXCEPT !.id = ToString(base + i)]]

ConsInit ==
  /\ \E n \in 0..MaxHoldings : \E k \in 0..n :
       \E ss \in [1..k -> ConsStockSamples] :
         \E fs \in [1..(n - k) -> ConsFundSamples] :
           cIn = [stocks |-> WithIds(ss, 0), mutualFunds |-> WithIds(fs, k)]
  /\ cI = 1
  /\ cJ = 1
  /\ stockMap = <<>>
  /\ mfMap = <<>>
  /\ cPc = "run"
  /\ cOut = [stocks |-> <<>>, mutualFunds |-> <<>>]
  /\ file = [stocks |-> <<>>, mutualFunds |-> <<>>, lastUpdated |-> ""]
  /\ now = 0
  /\ req = [op |-> "idle"]
  /\ res = [op |-> "none"]
  /\ bg = <<>>
  /\ nreq = 0
  /\ call = NoCall

\* portfolio.stocks.forEach, a symbol not yet in stockMap (line 147, else)
ConsStockFirst ==
  /\ cPc = "run"
  /\ cI <= Len(cIn.stocks)
  /\ ~MapHas(stockMap, cIn.stocks[cI].symbol)
  /\ stockMap' = MapSet(stockMap, cIn.stocks[cI].symbol, StockFirst(cIn.stocks[cI]))
  /\ cI' = cI + 1
  /\ UNCHANGED <<cIn, cJ, mfMap, cPc, cOut, srvVars, call>>

\* portfolio.stocks.forEach, a symbol already in stockMap (line 96)
ConsStockMerge ==
  /\ cPc = "run"
  /\ cI <= Len(cIn.stocks)
  /\ MapHas(stockMap, cIn.stocks[cI].symbol)
  /\ stockMap' =
       MapAssign(stockMap, cIn.stocks[cI].symbol,
                 StockMerge(MapGet(stockMap, cIn.stocks[cI].symbol), cIn.stocks[cI]))
  /\ cI' = cI + 1
  /\ UNCHANGED <<cIn, cJ, mfMap, cPc, cOut, srvVars, call>>

\* portfolio.mutualFunds.forEach, a scheme not yet in mfMap (line 226, else)
ConsFundFirst ==
  /\ cPc = "run"
  /\ cI > Len(cIn.stocks)
  /\ cJ <= Len(cIn.mutualFunds)
  /\ ~MapHas(mfMap, cIn.mutualFunds[cJ].scheme)
  /\ mfMap' = MapSet(mfMap, cIn.mutualFunds[cJ].scheme, FundFirst(cIn.mutualFunds[cJ]))
  /\ cJ' = cJ + 1
  /\ UNCHANGED <<cIn, cI, stockMap, cPc, cOut, srvVars, call>>

\* portfolio.mutualFunds.forEach, a scheme already in mfMap (line 189)
ConsFundMerge ==
  /\ cPc = "run"
  /\ cI > Len(cIn.stocks)
  /\ cJ <= Len(cIn.mutualFunds)
  /\ MapHas(mfMap, cIn.mutualFunds[cJ].scheme)
  /\ mfMap' =
       MapAssign(mfMap, cIn.mutualFunds[cJ].scheme,
                 FundMerge(MapGet(mfMap, cIn.mutualFunds[cJ].scheme),
                           cIn.mutualFunds[cJ]))
  /\ cJ' = cJ + 1
  /\ UNCHANGED <<cIn, cI, stockMap, cPc, cOut, srvVars, call>>

\* the return statement (lines 260-263)
ConsReturn ==
  /\ cPc = "run"
  /\ cI > Len(cIn.stocks)
  /\ cJ > Len(cIn.mutualFunds)
  /\ cOut' = [stocks |-> MapValues(stockMap), mutualFunds |-> MapValues(mfMap)]
  /\ cPc' = "done"
  /\ UNCHANGED <<cIn, cI, cJ, stockMap, mfMap, srvVars, call>>

ConsNext ==
  \/ ConsStockFirst
  \/ ConsStockMerge
  \/ ConsFundFirst
  \/ ConsFundMerge
  \/ ConsReturn

SpecCons == ConsInit /\ [][ConsNext]_vars

----------------------------------------------------------------------------
(* Spec: the handlers over data/portfolio.json.  A handler is cut at its   *)
(* awaits: "...Read" is the arrival of a request up to the completion of   *)
(* fs.readFile (with the name lookup some handlers await before it),       *)
(* "...Finish" the code from there to the response, fs.writeFile included. *)
(* The client sends one request at a time; the company-name update that    *)
(* add-stock leaves behind runs beside the later requests.                 *)

\* requests received in one run
MaxRequests == 2

\* ticks of the clock in one run
MaxTicks == 1

\* new Date(t).toISOString(); the clock's tick stands for the instant and
\* for the day of lastUpdated and navDate alike
toISOString(t) == "T" \o ToString(t)

ISODay(t) == "D" \o ToString(t)

\* /^\d+$/.test(scheme), on the schemes of the model
AllDigits(scheme) == scheme \in {"101"}

JsonDoc(portfolio) ==
  [portfolio EXCEPT
     !.stocks = [i \in 1..Len(@) |-> JsonStock(@[i])],
     !.mutualFunds = [i \in 1..Len(@) |-> JsonMF(@[i])]]

EmptyDoc == [stocks |-> <<>>, mutualFunds |-> <<>>, lastUpdated |-> ""]

\* a document left by earlier requests: three stocks (two of one symbol, one
\* of quantity 0, one bought at 0) and two funds (one without scheme code);
\* their ids are clock values before the run
SeededDoc ==
  [ stocks |->
      << NewStock(StockBody("tcs", Whole(2), Whole(3)), ToString(-5)),
         NewStock(StockBody("infy", Whole(0), Whole(3)), ToString(-4)),
         NewStock(StockBody("tcs", Whole(1), Whole(0)), ToString(-3)) >>,
    mutualFunds |->
      << NewMF(FundBody(Whole(2), Whole(3), Whole(6)), "F", "", ToString(-2), ISODay(-2)),
         NewMF(FundBody(Whole(2), Whole(3), Whole(5)), "G", "101", ToString(-1),
               ISODay(-1)) >>,
    lastUpdated |-> "" ]

\* a document whose holdings were added without symbol and scheme name
UnnamedDoc ==
  [ stocks |-> << NewStock(StockBody("", Whole(2), Whole(3)), ToString(-2)) >>,
    mutualFunds |->
      << NewMF(FundBody(Whole(2), Whole(3), Whole(6)), "", "", ToString(-1),
               ISODay(-1)) >>,
    lastUpdated |-> "" ]

InitDocs == {EmptyDoc, SeededDoc, UnnamedDoc}

\* request bodies and ids the client sends
AddStockBodies ==
  {StockBody("tcs", Whole(2), Whole(3)), StockBody("infy", StrNum(1, 1), Whole(0))}

AddMFBodies == {FundBody(Whole(2), Whole(3), Whole(6))}

AddMFSchemes == {"F", "101"}

PutStockBodies ==
  {StockBody("", Whole(5), Undefined), StockBody("infy", Undefined, Whole(4))}

PutMFBodies ==
  {[scheme |-> "", units |-> Whole(5), purchaseNAV |-> Undefined,
    investedAmount |-> Undefined, purchaseDate |-> ""]}

AbsentId == "999"

HoldingIds(portfolio) ==
  {portfolio.stocks[i].id : i \in 1..Len(portfolio.stocks)}
  \cup {portfolio.mutualFunds[i].id : i \in 1..Len(portfolio.mutualFunds)}

TargetIds == HoldingIds(file) \cup {AbsentId}

\* what the market-data provider may answer for one stock: a rejected
\* request (network error, timeout), a body without chart.result[0].meta,
\* or a regularMarketPrice
NoPrice == Undefined

StockOutcome(kind, price) == [search |-> "unused", kind |-> kind, price |-> price]

StockOutcomes ==
  {StockOutcome("throw", NoPrice), StockOutcome("malformed", NoPrice)}
  \cup {StockOutcome("price", v) : v \in {Num(10, 3), Whole(0), StrNum(4, 1)}}

\* what the fund search and the NAV history may answer for one fund;
\* search is "unused" when the fund has its scheme code, kind is "unused"
\* when no scheme code is at hand
SearchOutcomes == {"throw", "nomatch", "match"}

NavOutcome(search, kind, nav) == [search |-> search, kind |-> kind, price |-> nav]

NavOutcomes(search) ==
  {NavOutcome(search, "throw", NoPrice), NavOutcome(search, "empty", NoPrice)}
  \cup {NavOutcome(search, "nav", v) : v \in {StrNum(10, 3), StrNum(0, 1)}}

\* names the company and fund name lookups may return ("": none found)
CompanyNames == {"", "Tata Consultancy Services"}

FundNames == {"", "Fund 101 Growth"}

FoundSchemeCode == "101"

Idle == [op |-> "idle"]

Response(op, status, message, wrote, io) ==
  [op |-> op, status |-> status, message |-> message, wrote |-> wrote, io |-> io]

Init ==
  /\ file \in InitDocs
  /\ now = 0
  /\ req = Idle
  /\ res = Response("none", 0, "", FALSE, "ok")
  /\ bg = <<>>
  /\ nreq = 0
  /\ call = NoCall
  /\ cIn = EmptyDoc
  /\ cI = 1
  /\ cJ = 1
  /\ stockMap = <<>>
  /\ mfMap = <<>>
  /\ cPc = "off"
  /\ cOut = [stocks |-> <<>>, mutualFunds |-> <<>>]

CanReceive == req.op = "idle" /\ nreq < MaxRequests

\* the clock advances between any two steps
Tick ==
  /\ now < MaxTicks
  /\ now' = now + 1
  /\ UNCHANGED <<file, req, res, bg, nreq, consVars, call>>

\* the failure message of each handler's catch block
FailureMessage(op) ==
  CASE op = "addStock" -> "Failed to add stock"
    [] op = "addMF" -> "Failed to add mutual fund"
    [] op = "deleteAny" -> "Failed to delete transaction"
    [] op = "refresh" -> "Failed to refresh portfolio"
    [] op = "putStock" -> "Failed to update stock transaction"
    [] op = "deleteStock" -> "Failed to delete stock transaction"
    [] op = "putMF" -> "Failed to update mutual fund transaction"
    [] op = "deleteMF" -> "Failed to delete mutual fund transaction"

Ops ==
  {"addStock", "addMF", "deleteAny", "refresh", "putStock", "deleteStock", "putMF",
   "deleteMF"}

\* fs.readFile rejects (or the text is not JSON): the handler's catch answers 500
ReadFails ==
  /\ CanReceive
  /\ \E op \in Ops : res' = Response(op, 500, FailureMessage(op), FALSE, "failed")
  /\ nreq' = nreq + 1
  /\ UNCHANGED <<file, now, req, bg, consVars, call>>

----------------------------------------------------------------------------
(* POST /api/portfolio/stock, lines 452-530                                *)

AddStockRead ==
  /\ CanReceive
  /\ \E body \in AddStockBodies :
       req' = [op |-> "addStock", body |-> body, portfolio |-> file]
  /\ nreq' = nreq + 1
  /\ UNCHANGED <<file, now, res, bg, consVars, call>>

\* lines 472-525: newStock, push, writeFile, start the name update, respond
AddStockFinish ==
  /\ req.op = "addStock"
  /\ LET newStock == NewStock(req.body, ToString(now))
     IN  /\ file' = JsonDoc([req.portfolio EXCEPT !.stocks = Append(@, newStock)])
         /\ bg' = Append(bg, [id |-> newStock.id, symbol |-> req.body.symbol,
                              pc |-> "fetch", companyName |-> "",
                              portfolio |-> EmptyDoc])
  /\ res' = Response("addStock", 200, "Stock added successfully", TRUE, "ok")
  /\ req' = Idle
  /\ UNCHANGED <<now, nreq, consVars, call>>

RemoveAt(seq, k) == [i \in 1..(Len(seq) - 1) |-> IF i < k THEN seq[i] ELSE seq[i + 1]]

\* lines 501-504, 523: fetchCompanyName settles; without a name nothing more
BgFetch ==
  /\ \E k \in 1..Len(bg) :
       /\ bg[k].pc = "fetch"
       /\ \E name \in CompanyNames :
            bg' = IF name = "" THEN RemoveAt(bg, k)
                  ELSE [bg EXCEPT ![k].pc = "read", ![k].companyName = name]
  /\ UNCHANGED <<file, now, req, res, nreq, consVars, call>>

\* lines 506-508: the update reads the document again
BgRead ==
  /\ \E k \in 1..Len(bg) :
       /\ bg[k].pc = "read"
       /\ bg' = [bg EXCEPT ![k].pc = "write", ![k].portfolio = file]
  /\ UNCHANGED <<file, now, req, res, nreq, consVars, call>>

\* lines 509-518: the stock's companyName set in the copy read
NamedDoc(portfolio, id, companyName) ==
  [portfolio EXCEPT
     !.stocks =
       IF \E i \in 1..Len(@) : @[i].id = id
       THEN LET stockIndex == CHOOSE i \in 1..Len(@) :
                                /\ @[i].id = id
                                /\ \A j \in 1..(i - 1) : @[j].id # id
            IN  [@ EXCEPT ![stockIndex].companyName = companyName]
       ELSE @]

\* lines 509-518: when the stock is in the copy read, the copy is written
BgWrite ==
  /\ \E k \in 1..Len(bg) :
       /\ bg[k].pc = "write"
       /\ file' =
            IF bg[k].id \in {bg[k].portfolio.stocks[i].id :
                               i \in 1..Len(bg[k].portfolio.stocks)}
            THEN JsonDoc(NamedDoc(bg[k].portfolio, bg[k].id, bg[k].companyName))
            ELSE file
       /\ bg' = RemoveAt(bg, k)
  /\ UNCHANGED <<now, req, res, nreq, consVars, call>>

----------------------------------------------------------------------------
(* POST /api/portfolio/mutual-fund, lines 532-580                          *)

AddMFRead ==
  /\ CanReceive
  /\ \E body \in AddMFBodies : \E scheme \in AddMFSchemes : \E fetchedName \in FundNames :
       /\ AllDigits(scheme) \/ fetchedName = ""
       /\ req' = [op |-> "addMF", body |-> body, scheme |-> scheme,
                  schemeName |-> IF fetchedName # "" THEN fetchedName ELSE scheme,
                  portfolio |-> file]
  /\ nreq' = nreq + 1
  /\ UNCHANGED <<file, now, res, bg, consVars, call>>

AddMFFinish ==
  /\ req.op = "addMF"
  /\ LET newMF == NewMF(req.body, req.schemeName,
                        IF AllDigits(req.scheme) THEN req.scheme ELSE "",
                        ToString(now), ISODay(now))
     IN  file' = JsonDoc([req.portfolio EXCEPT !.mutualFunds = Append(@, newMF)])
  /\ res' = Response("addMF", 200, "Mutual fund added successfully", TRUE, "ok")
  /\ req' = Idle
  /\ UNCHANGED <<now, bg, nreq, consVars, call>>

----------------------------------------------------------------------------
(* DELETE /api/portfolio/transaction/:id, lines 582-607                    *)

DeleteAnyRead ==
  /\ CanReceive
  /\ \E id \in TargetIds : req' = [op |-> "deleteAny", id |-> id, portfolio |-> file]
  /\ nreq' = nreq + 1
  /\ UNCHANGED <<file, now, res, bg, consVars, call>>

\* lines 592-596: both lists filtered
WithoutId(portfolio, id) ==
  [portfolio EXCEPT
     !.stocks = SelectSeq(@, LAMBDA stock : stock.id # id),
     !.mutualFunds = SelectSeq(@, LAMBDA mf : mf.id # id)]

\* lines 592-602: filter, writeFile, respond
DeleteAnyFinish ==
  /\ req.op = "deleteAny"
  /\ file' = JsonDoc(WithoutId(req.portfolio, req.id))
  /\ res' = Response("deleteAny", 200, "Transaction deleted successfully", TRUE, "ok")
  /\ req' = Idle
  /\ UNCHANGED <<now, bg, nreq, consVars, call>>

----------------------------------------------------------------------------
(* POST /api/refresh, lines 610-801                                        *)

RefreshRead ==
  /\ CanReceive
  /\ req' = [op |-> "refresh", portfolio |-> file, loaded |-> file, i |-> 1, j |-> 1,
             last |-> StockOutcome("none", NoPrice)]
  /\ nreq' = nreq + 1
  /\ UNCHANGED <<file, now, res, bg, consVars, call>>

StockFailed_reset(stock) ==
  [stock EXCEPT !.priceError = "true", !.currentPrice = Whole(0),
                !.totalValue = Whole(0)]

\* lines 677, 681, 688: the three places a failed lookup ends in
StockFailed(stock) == [stock EXCEPT !.priceError = "true"]

\* lines 623-689: one stock under the provider's answer
StockLookup(stock, outcome, today) ==
  CASE outcome.kind = "throw" -> StockFailed(stock)
    [] outcome.kind = "malformed" -> StockFailed(stock)
    [] outcome.kind = "price" ->
         IF Truthy(outcome.price) /\ Gt0(outcome.price)
         THEN IF IsNumber(outcome.price)
              THEN StockPriced(stock, outcome.price, today)
              ELSE StockFailed(stock)  \* toFixed is not a function: caught
         ELSE StockFailed(stock)

RefreshStock_saving ==
  /\ req.op = "refresh"
  /\ req.i <= Len(req.portfolio.stocks)
  /\ req.portfolio.stocks[req.i].symbol # ""
  /\ \E outcome \in StockOutcomes :
       req' = [req EXCEPT
                 !.portfolio.stocks[req.i] = StockLookup(@, outcome, ISODay(now)),
                 !.last = outcome,
                 !.i = @ + 1]
  /\ file' = JsonDoc(req'.portfolio)
  /\ UNCHANGED <<now, res, bg, nreq, consVars, call>>

\* lines 621-691, a stock with a symbol: one lookup, awaited
RefreshStock ==
  /\ req.op = "refresh"
  /\ req.i <= Len(req.portfolio.stocks)
  /\ req.portfolio.stocks[req.i].symbol # ""
  /\ \E outcome \in StockOutcomes :
       req' = [req EXCEPT
                 !.portfolio.stocks[req.i] = StockLookup(@, outcome, ISODay(now)),
                 !.last = outcome,
                 !.i = @ + 1]
  /\ UNCHANGED <<file, now, res, bg, nreq, consVars, call>>

\* line 622: a stock without a symbol is passed over
RefreshStockSkip ==
  /\ req.op = "refresh"
  /\ req.i <= Len(req.portfolio.stocks)
  /\ req.portfolio.stocks[req.i].symbol = ""
  /\ req' = [req EXCEPT !.last = StockOutcome("skip", NoPrice), !.i = @ + 1]
  /\ UNCHANGED <<file, now, res, bg, nreq, consVars, call>>

FundFailed(mf) == [mf EXCEPT !.navError = "true"]

\* the date of the provider's latest NAV entry
LatestNavDate == "01-11-2026"

\* lines 696-782: one fund under the answers of the search (read only
\* without a stored schemeCode) and of the NAV history (read only with a
\* scheme code at hand)
FundLookup(mf, nav) ==
  LET schemeCode ==
        IF mf.schemeCode # "" THEN mf.schemeCode
        ELSE IF nav.search = "match" THEN FoundSchemeCode ELSE ""
      mf1 == [mf EXCEPT !.schemeCode = schemeCode]
      currentNAV == parseFloat(nav.price)
  IN  IF schemeCode # ""
      THEN CASE nav.kind = "throw" -> FundFailed(mf1)
             [] nav.kind = "empty" -> FundFailed(mf1)
             [] nav.kind = "nav" ->
                  IF Truthy(currentNAV) /\ Gt0(currentNAV)
                  THEN FundPriced(mf1, currentNAV, LatestNavDate)
                  ELSE FundFailed(mf1)
      ELSE FundFailed(mf1)

\* lines 694-784, a fund with a scheme name
RefreshFund ==
  /\ req.op = "refresh"
  /\ req.i > Len(req.portfolio.stocks)
  /\ req.j <= Len(req.portfolio.mutualFunds)
  /\ req.portfolio.mutualFunds[req.j].scheme # ""
  /\ LET mf == req.portfolio.mutualFunds[req.j]
     IN  \E search \in IF mf.schemeCode = "" THEN SearchOutcomes ELSE {"unused"} :
           \E nav \in IF mf.schemeCode # "" \/ search = "match"
                      THEN NavOutcomes(search)
                      ELSE {NavOutcome(search, "unused", NoPrice)} :
             req' = [req EXCEPT
                       !.portfolio.mutualFunds[req.j] = FundLookup(mf, nav),
                       !.last = nav,
                       !.j = @ + 1]
  /\ UNCHANGED <<file, now, res, bg, nreq, consVars, call>>

\* line 695: a fund without a scheme name is passed over
RefreshFundSkip ==
  /\ req.op = "refresh"
  /\ req.i > Len(req.portfolio.stocks)
  /\ req.j <= Len(req.portfolio.mutualFunds)
  /\ req.portfolio.mutualFunds[req.j].scheme = ""
  /\ req' = [req EXCEPT !.last = NavOutcome("unused", "skip", NoPrice), !.j = @ + 1]
  /\ UNCHANGED <<file, now, res, bg, nreq, consVars, call>>

RefreshStamp_stale(portfolio, t) == portfolio

\* line 787
RefreshStamp(portfolio, t) == [portfolio EXCEPT !.lastUpdated = toISOString(t)]

RefreshLoopsDone ==
  /\ req.i > Len(req.portfolio.stocks)
  /\ req.j > Len(req.portfolio.mutualFunds)

\* lines 786-796: stamp, writeFile, respond
RefreshSave ==
  /\ req.op = "refresh"
  /\ RefreshLoopsDone
  /\ file' = JsonDoc(RefreshStamp(req.portfolio, now))
  /\ res' = Response("refresh", 200, "Portfolio refreshed successfully", TRUE, "ok")
  /\ req' = Idle
  /\ UNCHANGED <<now, bg, nreq, consVars, call>>

----------------------------------------------------------------------------
(* PUT and DELETE /api/stocks/transaction/:id, lines 805-929               *)

StockIds(portfolio) == {portfolio.stocks[i].id : i \in 1..Len(portfolio.stocks)}

FundIds(portfolio) ==
  {portfolio.mutualFunds[i].id : i \in 1..Len(portfolio.mutualFunds)}

\* lines 817-827: the company name is looked up when a symbol is sent
PutStockRead ==
  /\ CanReceive
  /\ \E id \in TargetIds : \E body \in PutStockBodies : \E companyName \in CompanyNames :
       /\ body.symbol # "" \/ companyName = ""
       /\ req' = [op |-> "putStock", id |-> id, body |-> body,
                  companyName |-> companyName, portfolio |-> file]
  /\ nreq' = nreq + 1
  /\ UNCHANGED <<file, now, res, bg, consVars, call>>

\* lines 834-869: updatedStock
UpdatedStock(stock, body, companyName) ==
  LET quantity == safeNumber(body.quantity, stock.quantity)
      purchasePrice == safeNumber(body.purchasePrice, stock.purchasePrice)
      value == Times(quantity, safeNumber0(stock.currentPrice))
      invested == Times(quantity, purchasePrice)
  IN  [stock EXCEPT
        !.symbol = IF body.symbol # "" THEN toUpperCase(body.symbol) ELSE stock.symbol,
        !.originalSymbol =
          OrElse(body.originalSymbol, OrElse(stock.originalSymbol, stock.symbol)),
        !.companyName =
          OrElse(companyName,
                 OrElse(stock.companyName,
                        OrElse(body.originalSymbol,
                               OrElse(stock.originalSymbol, stock.symbol)))),
        !.quantity = quantity,
        !.purchasePrice = purchasePrice,
        !.purchaseDate = OrElse(body.purchaseDate, stock.purchaseDate),
        !.totalValue = value,
        !.totalGain = Minus(value, invested),
        !.gainPercent = PercentOf(Minus(value, invested), invested)]

\* lines 831-873
WithUpdatedStock(portfolio, id, body, companyName) ==
  [portfolio EXCEPT
     !.stocks = [i \in 1..Len(@) |->
                   IF @[i].id = id THEN UpdatedStock(@[i], body, companyName)
                   ELSE @[i]]]

PutStockFinish ==
  /\ req.op = "putStock"
  /\ IF req.id \in StockIds(req.portfolio)
     THEN /\ file' = JsonDoc(WithUpdatedStock(req.portfolio, req.id, req.body,
                                              req.companyName))
          /\ res' = Response("putStock", 200, "Stock transaction updated successfully",
                             TRUE, "ok")
     ELSE /\ res' = Response("putStock", 404, "Stock transaction not found", FALSE, "ok")
          /\ UNCHANGED file
  /\ req' = Idle
  /\ UNCHANGED <<now, bg, nreq, consVars, call>>

DeleteStockRead ==
  /\ CanReceive
  /\ \E id \in TargetIds : req' = [op |-> "deleteStock", id |-> id, portfolio |-> file]
  /\ nreq' = nreq + 1
  /\ UNCHANGED <<file, now, res, bg, consVars, call>>

\* lines 905-911
WithoutStock(portfolio, id) ==
  [portfolio EXCEPT !.stocks = SelectSeq(@, LAMBDA stock : stock.id # id)]

DeleteStockFinish ==
  /\ req.op = "deleteStock"
  /\ IF req.id \in StockIds(req.portfolio)
     THEN /\ file' = JsonDoc(WithoutStock(req.portfolio, req.id))
          /\ res' = Response("deleteStock", 200, "Stock transaction deleted successfully",
                             TRUE, "ok")
     ELSE /\ res' = Response("deleteStock", 404, "Stock transaction not found", FALSE,
                             "ok")
          /\ UNCHANGED file
  /\ req' = Idle
  /\ UNCHANGED <<now, bg, nreq, consVars, call>>

----------------------------------------------------------------------------
(* PUT and DELETE /api/mutual-funds/transaction/:id, lines 933-1036        *)

PutMFRead ==
  /\ CanReceive
  /\ \E id \in TargetIds : \E body \in PutMFBodies :
       req' = [op |-> "putMF", id |-> id, body |-> body, portfolio |-> file]
  /\ nreq' = nreq + 1
  /\ UNCHANGED <<file, now, res, bg, consVars, call>>

\* lines 950-968: updatedMF
UpdatedMF(mf, body) ==
  LET units == safeNumber(body.units, mf.units)
      investedAmount == safeNumber(body.investedAmount, mf.investedAmount)
      value == Times(units, safeNumber0(mf.currentNAV))
  IN  [mf EXCEPT
        !.scheme = OrElse(body.scheme, mf.scheme),
        !.units = units,
        !.purchaseNAV = safeNumber(body.purchaseNAV, mf.purchaseNAV),
        !.investedAmount = investedAmount,
        !.purchaseDate = OrElse(body.purchaseDate, mf.purchaseDate),
        !.totalValue = value,
        !.totalGain = Minus(value, investedAmount),
        !.gainPercent = PercentOf(Minus(value, investedAmount), investedAmount)]

\* lines 947-972
WithUpdatedMF(portfolio, id, body) ==
  [portfolio EXCEPT
     !.mutualFunds = [i \in 1..Len(@) |->
                        IF @[i].id = id THEN UpdatedMF(@[i], body) ELSE @[i]]]

PutMFFinish ==
  /\ req.op = "putMF"
  /\ IF req.id \in FundIds(req.portfolio)
     THEN /\ file' = JsonDoc(WithUpdatedMF(req.portfolio, req.id, req.body))
          /\ res' = Response("putMF", 200, "Mutual fund transaction updated successfully",
                             TRUE, "ok")
     ELSE /\ res' = Response("putMF", 404, "Mutual fund transaction not found", FALSE,
                             "ok")
          /\ UNCHANGED file
  /\ req' = Idle
  /\ UNCHANGED <<now, bg, nreq, consVars, call>>

DeleteMFRead ==
  /\ CanReceive
  /\ \E id \in TargetIds : req' = [op |-> "deleteMF", id |-> id, portfolio |-> file]
  /\ nreq' = nreq + 1
  /\ UNCHANGED <<file, now, res, bg, consVars, call>>

\* lines 1008-1014
WithoutMF(portfolio, id) ==
  [portfolio EXCEPT !.mutualFunds = SelectSeq(@, LAMBDA mf : mf.id # id)]

DeleteMFFinish ==
  /\ req.op = "deleteMF"
  /\ IF req.id \in FundIds(req.portfolio)
     THEN /\ file' = JsonDoc(WithoutMF(req.portfolio, req.id))
          /\ res' = Response("deleteMF", 200,
                             "Mutual fund transaction deleted successfully", TRUE, "ok")
     ELSE /\ res' = Response("deleteMF", 404, "Mutual fund transaction not found", FALSE,
                             "ok")
          /\ UNCHANGED file
  /\ req' = Idle
  /\ UNCHANGED <<now, bg, nreq, consVars, call>>

----------------------------------------------------------------------------

\* the handler has reached its fs.writeFile
AtWrite ==
  CASE req.op \in {"addStock", "addMF", "deleteAny"} -> TRUE
    [] req.op = "refresh" -> RefreshLoopsDone
    [] req.op \in {"putStock", "deleteStock"} -> req.id \in StockIds(req.portfolio)
    [] req.op \in {"putMF", "deleteMF"} -> req.id \in FundIds(req.portfolio)
    [] OTHER -> FALSE

\* fs.writeFile rejects: the handler's catch answers 500, the file is as it was
WriteFails ==
  /\ req.op # "idle"
  /\ AtWrite
  /\ res' = Response(req.op, 500, FailureMessage(req.op), FALSE, "failed")
  /\ req' = Idle
  /\ UNCHANGED <<file, now, bg, nreq, consVars, call>>

Next ==
  \/ Tick
  \/ ReadFails
  \/ WriteFails
  \/ AddStockRead
  \/ AddStockFinish
  \/ BgFetch
  \/ BgRead
  \/ BgWrite
  \/ AddMFRead
  \/ AddMFFinish
  \/ DeleteAnyRead
  \/ DeleteAnyFinish
  \/ RefreshRead
  \/ RefreshStock
  \/ RefreshStockSkip
  \/ RefreshFund
  \/ RefreshFundSkip
  \/ RefreshSave
  \/ PutStockRead
  \/ PutStockFinish
  \/ DeleteStockRead
  \/ DeleteStockFinish
  \/ PutMFRead
  \/ PutMFFinish
  \/ DeleteMFRead
  \/ DeleteMFFinish

Spec == Init /\ [][Next]_vars

----------------------------------------------------------------------------
(* SpecNum: safeNumber(value, defaultValue) on bounded arguments.          *)

\* values a field of a request body or of portfolio.json may hold
NumValues ==
  {Num(n, 2) : n \in {-3, 0, 2, 7}}
  \cup {StrNum(n, 2) : n \in {-3, 0, 7}}
  \cup {NaN, Infinity(1), Infinity(-1), StrInf(1), StrInf(-1), StrNaN, Undefined, Null}

\* the defaults of the call sites: 0, a stored field, an explicit number
NumDefaults == {Whole(0), Whole(7), Undefined, NaN}

NumInit ==
  /\ \E value \in NumValues : \E defaultValue \in NumDefaults :
       call = [pc |-> "parse", value |-> value, defaultValue |-> defaultValue,
               num |-> Undefined, out |-> Undefined]
  /\ cIn = EmptyDoc
  /\ cI = 1
  /\ cJ = 1
  /\ stockMap = <<>>
  /\ mfMap = <<>>
  /\ cPc = "off"
  /\ cOut = [stocks |-> <<>>, mutualFunds |-> <<>>]
  /\ file = EmptyDoc
  /\ now = 0
  /\ req = Idle
  /\ res = Response("none", 0, "", FALSE, "ok")
  /\ bg = <<>>
  /\ nreq = 0

\* line 16: const num = parseFloat(value)
SafeNumberParse ==
  /\ call.pc = "parse"
  /\ call' = [call EXCEPT !.num = parseFloat(call.value), !.pc = "return"]
  /\ UNCHANGED <<consVars, srvVars>>

\* line 17: return isNaN(num) ? defaultValue : num
SafeNumberReturn ==
  /\ call.pc = "return"
  /\ call' = [call EXCEPT !.out = safeNumber(call.value, call.defaultValue),
                          !.pc = "done"]
  /\ UNCHANGED <<consVars, srvVars>>

NumNext ==
  \/ SafeNumberParse
  \/ SafeNumberReturn

SpecNum == NumInit /\ [][NumNext]_vars

----------------------------------------------------------------------------
(* Properties of consolidatePortfolio, read off the returned value.        *)

\* the sub-sequence of the holdings of one key, in input order
StocksOf(key) == SelectSeq(cIn.stocks, LAMBDA h : h.symbol = key)

FundsOf(key) == SelectSeq(cIn.mutualFunds, LAMBDA h : h.scheme = key)

RECURSIVE SumSeq(_)
\* the sum of a sequence of numbers, left to right
SumSeq(nums) ==
  IF nums = <<>> THEN Whole(0)
  ELSE NumAdd(SumSeq(SubSeq(nums, 1, Len(nums) - 1)), nums[Len(nums)])

SumOver(seq, Term(_)) == SumSeq([i \in 1..Len(seq) |-> Term(seq[i])])

RECURSIVE FirstSeen(_)
\* the distinct elements of a sequence of keys, by first occurrence
FirstSeen(keys) ==
  IF keys = <<>> THEN <<>>
  ELSE LET front == FirstSeen(SubSeq(keys, 1, Len(keys) - 1))
           last == keys[Len(keys)]
       IN  IF \E i \in 1..Len(front) : front[i] = last THEN front
           ELSE Append(front, last)

StockKeys(seq) == [i \in 1..Len(seq) |-> seq[i].symbol]

FundKeys(seq) == [i \in 1..Len(seq) |-> seq[i].scheme]

NormQuantity(h) == safeNumber0(h.quantity)

NormUnits(h) == safeNumber0(h.units)

\* C1: conservation of quantity. Once consolidatePortfolio has returned,
\* every key of the input has a position, and the quantity (units) of each
\* returned position is the sum of the normalized quantities (units) of the
\* input holdings of its key.
C1_Conservation ==
  cPc = "done" =>
    /\ \A i \in 1..Len(cIn.stocks) :
         \E j \in 1..Len(cOut.stocks) : cOut.stocks[j].symbol = cIn.stocks[i].symbol
    /\ \A j \in 1..Len(cOut.stocks) :
         LET hs == StocksOf(cOut.stocks[j].symbol)
         IN  cOut.stocks[j].quantity = SumOver(hs, NormQuantity)
    /\ \A i \in 1..Len(cIn.mutualFunds) :
         \E j \in 1..Len(cOut.mutualFunds) :
           cOut.mutualFunds[j].scheme = cIn.mutualFunds[i].scheme
    /\ \A j \in 1..Len(cOut.mutualFunds) :
         LET hs == FundsOf(cOut.mutualFunds[j].scheme)
         IN  cOut.mutualFunds[j].units = SumOver(hs, NormUnits)

\* several holdings of one symbol, one of them with a text quantity, merged
\* into a position of quantity above 1
C1_Witness ==
  /\ cPc = "done"
  /\ \E j \in 1..Len(cOut.stocks) :
       /\ Len(StocksOf(cOut.stocks[j].symbol)) >= 2
       /\ \E h \in {cIn.stocks[i] : i \in 1..Len(cIn.stocks)} :
            h.symbol = cOut.stocks[j].symbol /\ h.quantity.t = "strnum"
       /\ cOut.stocks[j].quantity.n > 1

\* C2: order preservation. The returned stocks carry exactly the distinct
\* symbols of the input, one position each, in order of first occurrence;
\* likewise the returned funds and the schemes.
C2_OrderPreserved ==
  cPc = "done" =>
    /\ StockKeys(cOut.stocks) = FirstSeen(StockKeys(cIn.stocks))
    /\ FundKeys(cOut.mutualFunds) = FirstSeen(FundKeys(cIn.mutualFunds))

\* the input [A, B, A]: the later A must not move A behind B
C2_Witness ==
  /\ cPc = "done"
  /\ Len(cIn.stocks) = 3
  /\ cIn.stocks[1].symbol = cIn.stocks[3].symbol
  /\ cIn.stocks[1].symbol # cIn.stocks[2].symbol
  /\ Len(cOut.stocks) = 2

\* C6: cost-basis invariant. Every returned position has
\* costBasis = investedAmount / quantity when its quantity is not 0, and
\* costBasis = 0 when its quantity is 0 (stocks: purchasePrice, quantity;
\* funds: purchaseNAV, units).
C6_CostBasis ==
  cPc = "done" =>
    /\ \A j \in 1..Len(cOut.stocks) :
         LET pos == cOut.stocks[j]
         IN  IF pos.quantity # Whole(0)
             THEN pos.purchasePrice = NumDiv(pos.investedAmount, pos.quantity)
             ELSE pos.purchasePrice = Whole(0)
    /\ \A j \in 1..Len(cOut.mutualFunds) :
         LET pos == cOut.mutualFunds[j]
         IN  IF pos.units # Whole(0)
             THEN pos.purchaseNAV = NumDiv(pos.investedAmount, pos.units)
             ELSE pos.purchaseNAV = Whole(0)

\* C7: gain-percent invariant. Every returned position has
\* totalGain = totalValue - investedAmount, and
\* gainPercent = totalGain / investedAmount * 100 when investedAmount is not
\* 0, gainPercent = 0 when it is 0.
GainPercentHolds(pos) ==
  /\ pos.totalGain = NumAdd(pos.totalValue, NumNeg(pos.investedAmount))
  /\ IF pos.investedAmount # Whole(0)
     THEN pos.gainPercent =
            NumMul(NumDiv(pos.totalGain, pos.investedAmount), Whole(100))
     ELSE pos.gainPercent = Whole(0)

C7_GainPercent ==
  cPc = "done" =>
    /\ \A j \in 1..Len(cOut.stocks) : GainPercentHolds(cOut.stocks[j])
    /\ \A j \in 1..Len(cOut.mutualFunds) : GainPercentHolds(cOut.mutualFunds[j])

TxnQuantity(t) == t.quantity

TxnUnits(t) == t.units

\* C8: transaction-sum invariant. The transactions of every returned
\* position are one per input holding of its key, in input order, each with
\* the id of its holding, and their quantities (units) sum to the quantity
\* (units) of the position.
C8_Transactions ==
  cPc = "done" =>
    /\ \A j \in 1..Len(cOut.stocks) :
         LET pos == cOut.stocks[j]
             hs == StocksOf(pos.symbol)
         IN  /\ Len(pos.transactions) = Len(hs)
             /\ \A i \in 1..Len(hs) : pos.transactions[i].id = hs[i].id
             /\ SumOver(pos.transactions, TxnQuantity)
                  = pos.quantity
    /\ \A j \in 1..Len(cOut.mutualFunds) :
         LET pos == cOut.mutualFunds[j]
             hs == FundsOf(pos.scheme)
         IN  /\ Len(pos.transactions) = Len(hs)
             /\ \A i \in 1..Len(hs) : pos.transactions[i].id = hs[i].id
             /\ SumOver(pos.transactions, TxnUnits)
                  = pos.units

\* a stock position built from three holdings
C8_Witness ==
  /\ cPc = "done"
  /\ \E j \in 1..Len(cOut.stocks) :
       /\ Len(cOut.stocks[j].transactions) = 3
       /\ cOut.stocks[j].quantity # Whole(0)

\* C9: the invested amount is carried forward. Each merge of a holding into
\* a position already in the Map leaves
\* investedAmount = (the investedAmount stored before) + quantity * costBasis
\* of the incoming holding.
C9_InvestedCarried ==
  [][ /\ ConsStockMerge =>
          LET h == cIn.stocks[cI]
          IN  MapGet(stockMap', h.symbol).investedAmount =
                NumAdd(MapGet(stockMap, h.symbol).investedAmount,
                       NumMul(safeNumber0(h.quantity), safeNumber0(h.purchasePrice)))
      /\ ConsFundMerge =>
          LET h == cIn.mutualFunds[cJ]
          IN  MapGet(mfMap', h.scheme).investedAmount =
                NumAdd(MapGet(mfMap, h.scheme).investedAmount,
                       NumMul(safeNumber0(h.units), safeNumber0(h.purchaseNAV)))
    ]_vars

\* C10: transactions are valued at the position's price. In the returned
\* value every transaction of a position has
\* totalValue = its quantity * the position's currentPrice (currentNAV) and
\* totalGain = totalValue - its own invested amount.
C10_TxnAtPositionPrice ==
  cPc = "done" =>
    /\ \A j \in 1..Len(cOut.stocks) :
         LET pos == cOut.stocks[j]
         IN  \A i \in 1..Len(pos.transactions) :
               LET t == pos.transactions[i]
               IN  /\ t.totalValue = NumMul(t.quantity, pos.currentPrice)
                   /\ t.totalGain =
                        NumAdd(t.totalValue,
                               NumNeg(NumMul(t.quantity, t.purchasePrice)))
    /\ \A j \in 1..Len(cOut.mutualFunds) :
         LET pos == cOut.mutualFunds[j]
         IN  \A i \in 1..Len(pos.transactions) :
               LET t == pos.transactions[i]
               IN  /\ t.totalValue = NumMul(t.units, pos.currentNAV)
                   /\ t.totalGain = NumAdd(t.totalValue, NumNeg(t.investedAmount))

----------------------------------------------------------------------------
(* Properties of the request handlers.                                     *)

\* one step of the stock loop of a refresh pass has run on req.i
StockStep == req.op = "refresh" /\ req'.op = "refresh" /\ req'.i = req.i + 1

\* one step of the fund loop of a refresh pass has run on req.j
FundStep == req.op = "refresh" /\ req'.op = "refresh" /\ req'.j = req.j + 1

\* the provider answered with a price that is a number above 0
LookupSucceeded(outcome) ==
  outcome.kind = "price" /\ IsNumber(outcome.price) /\ Gt0(outcome.price)

\* the request was rejected, the body was malformed, or the price is not
\* a number above 0
LookupFailed(outcome) ==
  outcome.kind \in {"throw", "malformed", "price"} /\ ~LookupSucceeded(outcome)

ValuationFields ==
  {"currentPrice", "change", "changePercent", "totalValue", "totalGain", "gainPercent"}

\* C3: reconciliation isolation for stocks. In every step of the stock loop
\* of a refresh pass, the holding the step is on still has the values it was
\* loaded with; if its lookup failed (rejected request, malformed body,
\* price not a number above 0) it leaves the step with priceError = true and
\* its six valuation fields as loaded; if its lookup succeeded it leaves
\* the step with priceError = false, currentPrice the price rounded to two
\* decimals, change, totalValue and totalGain recomputed from it and
\* lastUpdated the day of the pass; and no step of the pass, on a stock or on
\* a fund, changes any other stock holding.
C3_Isolation ==
  [][ /\ StockStep =>
           LET k == req.i
               before == req.loaded.stocks[k]
               after == req'.portfolio.stocks[k]
               outcome == req'.last
               currentPrice == parseFloat(toFixed2(outcome.price))
           IN  /\ req.portfolio.stocks[k] = before
               /\ \A m \in 1..Len(req.portfolio.stocks) :
                    m # k => req'.portfolio.stocks[m] = req.portfolio.stocks[m]
               /\ Len(req'.portfolio.stocks) = Len(req.portfolio.stocks)
               /\ LookupFailed(outcome) =>
                    /\ after.priceError = "true"
                    /\ \A f \in ValuationFields : after[f] = before[f]
                    /\ after = [before EXCEPT !.priceError = "true"]
               /\ LookupSucceeded(outcome) =>
                    /\ after.priceError = "false"
                    /\ after.currentPrice = currentPrice
                    /\ after.change = Minus(currentPrice, before.purchasePrice)
                    /\ after.totalValue = Times(before.quantity, currentPrice)
                    /\ after.totalGain =
                         Minus(after.totalValue,
                               Times(before.quantity, before.purchasePrice))
                    /\ after.lastUpdated = ISODay(now)
               /\ LookupFailed(outcome) \/ LookupSucceeded(outcome)
                    \/ (outcome.kind = "skip" /\ after = before)
      /\ FundStep => req'.portfolio.stocks = req.portfolio.stocks
    ]_vars

\* a pass over three stocks has priced the first and the third while the
\* lookup of the second failed
C3_Witness ==
  /\ req.op = "refresh"
  /\ req.i = 4
  /\ Len(req.portfolio.stocks) = 3
  /\ req.portfolio.stocks[1].priceError = "false"
  /\ req.portfolio.stocks[1].currentPrice = Num(333, 100)
  /\ req.loaded.stocks[2].priceError = "undefined"
  /\ req.portfolio.stocks[2] = [req.loaded.stocks[2] EXCEPT !.priceError = "true"]
  /\ req.portfolio.stocks[3].priceError = "false"
  /\ req.last.kind = "price"

\* C4: a refresh always succeeds at the request level. Whenever a refresh
\* request whose document was loaded ends with its document saved, whatever
\* the lookups of its holdings answered, the response is 200 "Portfolio
\* refreshed successfully" and the saved document's lastUpdated is the time
\* of the pass.
C4_RefreshSucceeds ==
  [][ (req.op = "refresh" /\ req'.op = "idle" /\ res'.io = "ok") =>
        /\ res'.op = "refresh"
        /\ res'.status = 200
        /\ res'.message = "Portfolio refreshed successfully"
        /\ res'.wrote
        /\ file'.lastUpdated = toISOString(now)
    ]_vars

\* a refresh has answered 200 after every one of three stock lookups and
\* of two fund lookups failed
C4_Witness ==
  /\ req.op = "idle"
  /\ res.op = "refresh"
  /\ res.status = 200
  /\ now = 1
  /\ file.lastUpdated = toISOString(1)
  /\ Len(file.stocks) = 3
  /\ Len(file.mutualFunds) = 2
  /\ \A k \in 1..3 : file.stocks[k].priceError = "true"
  /\ \A k \in 1..2 : file.mutualFunds[k].navError = "true"

UpdateDeleteOps == {"deleteAny", "putStock", "deleteStock", "putMF", "deleteMF"}

\* C5: not-found. Whenever an update or delete request whose id is absent
\* from the document it loaded ends, it answers 404, no write has occurred
\* and the persisted document is as it was.
C5_NotFound ==
  [][ ( /\ req.op \in UpdateDeleteOps
        /\ req'.op = "idle"
        /\ res'.io = "ok"
        /\ req.id \notin HoldingIds(req.portfolio) ) =>
        /\ res'.status = 404
        /\ ~res'.wrote
        /\ file' = file
    ]_vars

----------------------------------------------------------------------------
(* Further properties of consolidatePortfolio.                             *)

\* C11: display-name preference. Each merge of a stock holding into a
\* position already in the Map leaves the position's companyName as it was
\* when the holding's companyName is missing or equals the holding's own
\* symbol, and when the merge changes the companyName, the new name is the
\* holding's companyName and that name is set and is not the holding's symbol.
C11_NamePreference ==
  [][ ConsStockMerge =>
        LET stock == cIn.stocks[cI]
            existing == MapGet(stockMap, stock.symbol)
            after == MapGet(stockMap', stock.symbol)
        IN  /\ stock.companyName \in {"", stock.symbol} =>
                 after.companyName = existing.companyName
            /\ after.companyName # existing.companyName =>
                 /\ after.companyName = stock.companyName
                 /\ stock.companyName \notin {"", stock.symbol}
    ]_vars

\* a position named "Acme Ltd" by its first holding has kept the name
\* through the merge of a holding named by its symbol and of one without name
C11_Witness ==
  /\ cPc = "run"
  /\ cI = 4
  /\ cIn.stocks[1].companyName = "Acme Ltd"
  /\ cIn.stocks[2].companyName = cIn.stocks[2].symbol
  /\ cIn.stocks[3].companyName = ""
  /\ Len(stockMap) = 1
  /\ MapGet(stockMap, cIn.stocks[1].symbol).companyName = "Acme Ltd"
  /\ Len(MapGet(stockMap, cIn.stocks[1].symbol).transactions) = 3

\* the valuation of one holding by itself: value = quantity * price,
\* gain = value - invested, percent = gain / invested * 100 when invested > 0
\* and 0 otherwise
OwnValue(quantity, price) == NumMul(quantity, price)

OwnGain(quantity, price, invested) == NumAdd(OwnValue(quantity, price), NumNeg(invested))

OwnGainPercent(quantity, price, invested) ==
  IF Gt0(invested)
  THEN NumMul(NumDiv(OwnGain(quantity, price, invested), invested), Whole(100))
  ELSE Whole(0)

\* C13: singleton identity. In the returned value, the position of a key
\* that has exactly one holding in the input has quantity, cost basis,
\* currentPrice, change and changePercent equal to the holding's normalized
\* fields, totalValue = quantity * currentPrice,
\* totalGain = totalValue - invested and
\* gainPercent = totalGain / invested * 100 (0 when invested is not > 0),
\* all computed from that holding; and an input without holdings returns
\* no positions.
C13_Singleton ==
  cPc = "done" =>
    /\ \A j \in 1..Len(cOut.stocks) :
         LET pos == cOut.stocks[j]
             hs == StocksOf(pos.symbol)
             h == hs[1]
             quantity == safeNumber0(h.quantity)
             price == safeNumber0(h.currentPrice)
             invested == NumMul(quantity, safeNumber0(h.purchasePrice))
         IN  Len(hs) = 1 =>
               /\ pos.quantity = quantity
               /\ pos.purchasePrice = safeNumber0(h.purchasePrice)
               /\ pos.currentPrice = price
               /\ pos.change = safeNumber0(h.change)
               /\ pos.changePercent = safeNumber0(h.changePercent)
               /\ pos.totalValue = OwnValue(quantity, price)
               /\ pos.totalGain = OwnGain(quantity, price, invested)
               /\ pos.gainPercent = OwnGainPercent(quantity, price, invested)
    /\ \A j \in 1..Len(cOut.mutualFunds) :
         LET pos == cOut.mutualFunds[j]
             hs == FundsOf(pos.scheme)
             h == hs[1]
             units == safeNumber0(h.units)
             nav == safeNumber0(h.currentNAV)
             invested == safeNumber0(h.investedAmount)
         IN  Len(hs) = 1 =>
               /\ pos.units = units
               /\ pos.purchaseNAV = safeNumber0(h.purchaseNAV)
               /\ pos.currentNAV = nav
               /\ pos.change = safeNumber0(h.change)
               /\ pos.changePercent = safeNumber0(h.changePercent)
               /\ pos.totalValue = OwnValue(units, nav)
               /\ pos.totalGain = OwnGain(units, nav, invested)
               /\ pos.gainPercent = OwnGainPercent(units, nav, invested)
    /\ (cIn.stocks = <<>> /\ cIn.mutualFunds = <<>>) =>
         (cOut.stocks = <<>> /\ cOut.mutualFunds = <<>>)

\* the holdings of a key that the forEach loops have passed so far
StocksSeen(key) == SelectSeq(SubSeq(cIn.stocks, 1, cI - 1), LAMBDA h : h.symbol = key)

FundsSeen(key) == SelectSeq(SubSeq(cIn.mutualFunds, 1, cJ - 1), LAMBDA h : h.scheme = key)

\* the holdings of hs whose field f is set: it parses to a number
SetAt(hs, f) == {i \in 1..Len(hs) : ~isNaN(parseFloat(hs[i][f]))}

LastOf(S) == CHOOSE i \in S : \A k \in S : k <= i

\* position field f carries the value of the last holding of hs with f set
CarriesLast(pos, hs, f) ==
  SetAt(hs, f) # {} => pos[f] = parseFloat(hs[LastOf(SetAt(hs, f))][f])

\* C14: last-write-wins price. At every point of the consolidation, each
\* position's currentPrice (currentNAV), change and changePercent equal the
\* value of that field in the last holding of its key, among those merged so
\* far, that has the field set to a number; holdings with the field unset
\* are passed over.
C14_LastWriteWins ==
  cPc \in {"run", "done"} =>
    /\ \A j \in 1..Len(stockMap) :
         \A f \in {"currentPrice", "change", "changePercent"} :
           CarriesLast(stockMap[j].value, StocksSeen(stockMap[j].key), f)
    /\ \A j \in 1..Len(mfMap) :
         \A f \in {"currentNAV", "change", "changePercent"} :
           CarriesLast(mfMap[j].value, FundsSeen(mfMap[j].key), f)
    /\ cPc = "done" =>
         (cOut.stocks = MapValues(stockMap) /\ cOut.mutualFunds = MapValues(mfMap))

\* a position of three holdings has been returned: the first priced at 3,
\* the second repriced to 4 by a refresh, the third without price fields;
\* the position carries the second's values
C14_Witness ==
  /\ cPc = "done"
  /\ Len(cIn.stocks) = 3
  /\ Len(cOut.stocks) = 1
  /\ cIn.stocks[1].currentPrice = Whole(3)
  /\ cIn.stocks[2].currentPrice = Whole(4)
  /\ cIn.stocks[2].changePercent = StrNum(3333, 100)
  /\ cIn.stocks[3].currentPrice = Undefined
  /\ cIn.stocks[3].changePercent = Undefined
  /\ cOut.stocks[1].currentPrice = Whole(4)
  /\ cOut.stocks[1].changePercent = Num(3333, 100)

----------------------------------------------------------------------------
(* Properties of safeNumber.                                               *)

\* C12: the numeric normalizer. Once safeNumber(value, defaultValue) has
\* returned, the result is defaultValue when parseFloat(value) is NaN,
\* Infinity or -Infinity, and is the finite number parsed otherwise.
C12_Normalizer ==
  call.pc = "done" =>
    IF IsFinite(call.num) THEN call.out = call.num
    ELSE call.out = call.defaultValue

----------------------------------------------------------------------------
(* Further properties of the request handlers.                             *)

\* the processing of fund mf failed under the answers of outcome: no scheme
\* code stored and none found, the NAV request rejected, the NAV history
\* empty, or the NAV not above 0
FundProcessingFailed(mf, outcome) ==
  \/ mf.schemeCode = "" /\ outcome.search \in {"throw", "nomatch"}
  \/ outcome.kind \in {"throw", "empty"}
  \/ outcome.kind = "nav" /\ ~Gt0(parseFloat(outcome.price))

\* C15: fund failure isolation. In every step of the fund loop of a refresh
\* pass whose processing fails, the fund leaves the step with
\* navError = true and with every other field, schemeCode included, equal to
\* the value it was loaded with.
C15_FundIsolation ==
  [][ (FundStep /\ FundProcessingFailed(req.loaded.mutualFunds[req.j], req'.last)) =>
        LET before == req.loaded.mutualFunds[req.j]
            after == req'.portfolio.mutualFunds[req.j]
        IN  /\ after.navError = "true"
            /\ after = [before EXCEPT !.navError = "true"]
    ]_vars

\* C16: a successful stock refresh recomputes the valuation. In every step
\* of the stock loop whose lookup returned a price above 0, the stock leaves
\* the step with priceError = false, totalValue = quantity * currentPrice,
\* totalGain = totalValue - quantity * purchasePrice, and gainPercent equal
\* to totalGain / invested * 100 (read as a number, to two decimals) when
\* invested = quantity * purchasePrice is above 0, and to 0 when it is not.
C16_RefreshValuation ==
  [][ (StockStep /\ LookupSucceeded(req'.last)) =>
        LET after == req'.portfolio.stocks[req.i]
            invested == NumMul(ToNumber(after.quantity), ToNumber(after.purchasePrice))
        IN  /\ after.priceError = "false"
            /\ after.totalValue = NumMul(ToNumber(after.quantity), after.currentPrice)
            /\ after.totalGain = NumAdd(after.totalValue, NumNeg(invested))
            /\ ToNumber(after.gainPercent) =
                 IF Gt0(invested)
                 THEN ToNumber(toFixed2(NumMul(NumDiv(after.totalGain, invested),
                                               Whole(100))))
                 ELSE Whole(0)
    ]_vars

\* a step taken by the refresh handler itself
RefreshHandlerStep == req.op = "refresh" /\ req' # req

\* a refresh request that could not load the document
RefreshLoadFailed ==
  req.op = "idle" /\ nreq' # nreq /\ req'.op = "idle" /\ res'.op = "refresh"

PersistedIds ==
  [i \in 1..Len(file.stocks) |-> file.stocks[i].id]
  \o [i \in 1..Len(file.mutualFunds) |-> file.mutualFunds[i].id]

\* C18: holding ids are unique. In every persisted document no two
\* holdings, across stocks and mutualFunds, have the same id.
C18_UniqueIds ==
  \A i, j \in 1..Len(PersistedIds) : PersistedIds[i] = PersistedIds[j] => i = j

\* a deferred company-name update has written the document
BgWriteStep == bg' # bg /\ file' # file /\ req' = req

\* C19: no lost update from the deferred company-name write. Every write
\* of a company-name update leaves the persisted document as the requests
\* answered so far have committed it, but for companyName fields: the same
\* funds, the same lastUpdated, the same stocks in the same order, each with
\* every field other than companyName unchanged.
C19_NoLostUpdate ==
  [][ BgWriteStep =>
        /\ file'.mutualFunds = file.mutualFunds
        /\ file'.lastUpdated = file.lastUpdated
        /\ Len(file'.stocks) = Len(file.stocks)
        /\ \A i \in 1..Len(file.stocks) :
             i <= Len(file'.stocks) =>
               file'.stocks[i] =
                 [file.stocks[i] EXCEPT !.companyName = file'.stocks[i].companyName]
    ]_vars

====
